---- MODULE Spec2Model ----
(***************************************************************************)
(* Misbah Library: the borrow-request lifecycle and the book inventory     *)
(* counter, as implemented by the database schema (tables, row-level       *)
(* security policies, the update_book_availability trigger) and by the     *)
(* client handlers that write to it (requestBorrow, updateRequestStatus,   *)
(* BooksManagement.handleSubmit/handleDelete, manage-admin-role,           *)
(* bootstrap-admin, delete-user), with the tables' own endpoints as the    *)
(* policies admit them.                                                    *)
(*                                                                         *)
(* Every database statement is one transaction: PostgreSQL takes the row   *)
(* lock of the updated borrow_requests row, runs the AFTER ROW trigger in  *)
(* the same transaction and commits both writes together, so a handler's   *)
(* statement is one atomic step.  Concurrency between callers shows up as  *)
(* stale client state: the list a dashboard fetched earlier (view) decides *)
(* which buttons it offers, the row in the database decides what OLD is.   *)
(***************************************************************************)
EXTENDS Integers, FiniteSets, Sequences, TLC

\* ---- bounds of the model ----
MaxRequests == 2      \* borrow_requests rows ever inserted
MaxTotal == 1         \* largest total_count an admin types into the form

\* ---- domains ----
Users == {"u1", "u2", "u3"}
app_role == {"admin", "student"}
borrow_status == {"pending", "approved", "rejected", "returned"}
ReqIds == 1..MaxRequests
BookIds == {"b1"}
NULL == "null"
NoView == [mounted |-> FALSE, rows |-> <<>>]

VARIABLES
    auth_users,   \* auth.users: the accounts that exist (profiles rows follow them)
    user_roles,   \* public.user_roles: set of <<user_id, role>> (UNIQUE(user_id, role))
    books,        \* public.books: id -> [total_count, available_count]
    requests,     \* public.borrow_requests: id -> row
    nextReq,      \* request ids handed out so far (gen_random_uuid never repeats)
    usedBooks,    \* book ids handed out so far
    view,         \* per user: the `requests` state of a mounted BorrowRequests list
    toast,        \* what the last handler told its caller (toast / response kind)
    probe         \* scenario bookkeeping: who takes part and the book's
                  \* available_count when the scenario began (off in Spec)

vars == <<auth_users, user_roles, books, requests, nextReq, usedBooks, view, toast, probe>>

NoToast == "none"
ProbeOff == [pc |-> "off", admin |-> NULL, student |-> NULL, book |-> NULL, before |-> 0]
Probe(pc, admin, student, book, before) ==
    [pc |-> pc, admin |-> admin, student |-> student, book |-> book, before |-> before]

\* ---- database: role predicate used by the policies ----
has_role(_user_id, _role) == <<_user_id, _role>> \in user_roles

\* ---- database: the availability trigger ----
\* One UPDATE public.books ... WHERE id = NEW.book_id [AND available_count > 0].
DecrementGuardFree(bks, book_id) ==
    IF book_id \in DOMAIN bks
    THEN [bks EXCEPT ![book_id].available_count = @ - 1]
    ELSE bks

DecrementAvailable(bks, book_id) ==
    IF book_id \in DOMAIN bks /\ bks[book_id].available_count > 0
    THEN [bks EXCEPT ![book_id].available_count = @ - 1]
    ELSE bks

IncrementCapped(bks, book_id) ==
    IF book_id \in DOMAIN bks
       /\ bks[book_id].available_count < bks[book_id].total_count
    THEN [bks EXCEPT ![book_id].available_count = @ + 1]
    ELSE bks

IncrementAvailable(bks, book_id) ==
    IF book_id \in DOMAIN bks
    THEN [bks EXCEPT ![book_id].available_count = @ + 1]
    ELSE bks

\* The first IF of the trigger body: does this row change count as an approval?
ApprovalEdgeAnyOld(old_status, new_status) == new_status = "approved"

ApprovalEdge(old_status, new_status) ==
    new_status = "approved" /\ (old_status = NULL \/ old_status # "approved")

\* The third IF of the trigger body: a rejection that reverses an approval.
RejectionEdgeAnyOld(old_status, new_status) == new_status = "rejected"

RejectionEdge(old_status, new_status) ==
    new_status = "rejected" /\ old_status = "approved"

\* public.update_book_availability(): OLD.status is NULL on INSERT.  The three
\* IF blocks run one after the other on the same books table.
update_book_availability(bks, old_status, new_status, book_id) ==
    LET b1 == IF ApprovalEdge(old_status, new_status)
              THEN DecrementAvailable(bks, book_id) ELSE bks
        b2 == IF new_status = "returned" /\ old_status = "approved"
              THEN IncrementAvailable(b1, book_id) ELSE b1
        b3 == IF RejectionEdge(old_status, new_status)
              THEN IncrementAvailable(b2, book_id) ELSE b2
    IN b3

\* ---- database: what a SELECT on borrow_requests returns to a caller ----
\* "Students can view their own requests" OR "Admins can view all requests";
\* the client keeps the rows' status in its `requests` state.
SnapshotEveryRow(u, roles, reqs) ==
    [mounted |-> TRUE, rows |-> [r \in DOMAIN reqs |-> reqs[r].status]]

Snapshot(u, roles, reqs) ==
    LET visible == {r \in DOMAIN reqs :
                       reqs[r].student_id = u \/ <<u, "admin">> \in roles}
    IN [mounted |-> TRUE, rows |-> [r \in visible |-> reqs[r].status]]

\* ---- student: BookCatalog.requestBorrow ----
\* The Request button is disabled while the catalogue the student fetched shows
\* available_count = 0; that list may be older than the books table, so the
\* button does not depend on the table's current count.
\* The INSERT's outcome: the WITH CHECK of "Students can create borrow
\* requests", then the foreign key to books.  The table declares no unique
\* constraint or index, so no INSERT ends in a duplicate-key error.
InsertRequestErrorNoPolicy(u, student_id, book_id) ==
    IF book_id \notin DOMAIN books THEN "foreign_key" ELSE "none"

InsertRequestErrorNoForeignKey(u, student_id, book_id) ==
    IF ~(u = student_id /\ has_role(u, "student")) THEN "rls" ELSE "none"

InsertRequestError(u, student_id, book_id) ==
    IF ~(u = student_id /\ has_role(u, "student")) THEN "rls"
    ELSE IF book_id \notin DOMAIN books THEN "foreign_key"
    ELSE "none"

NewRequest(student_id, book_id) ==
    [student_id |-> student_id, book_id |-> book_id, status |-> "pending",
     issue_date |-> NULL, due_date |-> NULL, return_date |-> NULL]

\* catch: "duplicate" in the message selects the duplicate text, else the raw error.
BorrowErrorKind(err) == IF err = "duplicate" THEN "duplicate" ELSE "error"

requestBorrow(u, bookId) ==
    /\ nextReq <= MaxRequests
    /\ LET err == InsertRequestError(u, u, bookId) IN
       IF err = "none"
       THEN /\ requests' = (nextReq :> NewRequest(u, bookId)) @@ requests
            /\ nextReq' = nextReq + 1
            /\ books' = update_book_availability(books, NULL, "pending", bookId)
            /\ toast' = "success"
       ELSE /\ UNCHANGED <<requests, nextReq, books>>
            /\ toast' = BorrowErrorKind(err)
    /\ UNCHANGED <<user_roles, usedBooks, view, probe>>
    /\ UNCHANGED auth_users

\* ---- admin: BorrowRequests.fetchRequests ----
\* AdminDashboard renders the list only for a caller whose role is admin.
fetchRequests(u) ==
    /\ has_role(u, "admin")
    /\ view' = [view EXCEPT ![u] = Snapshot(u, user_roles, requests)]
    /\ UNCHANGED <<user_roles, books, requests, nextReq, usedBooks, toast, probe>>
    /\ UNCHANGED auth_users

\* ---- admin: RequestCard buttons and BorrowRequests.updateRequestStatus ----
\* Approve/Reject are rendered for a listed request shown as pending,
\* Mark as Returned for one shown as approved.
ButtonOffered(u, r, status) ==
    /\ view[u].mounted
    /\ r \in DOMAIN view[u].rows
    /\ \/ view[u].rows[r] = "pending" /\ status \in {"approved", "rejected"}
       \/ view[u].rows[r] = "approved" /\ status = "returned"

\* updateData applied to the row: status always, the dates as the handler adds them.
ApplyUpdateData(row, status, issueDate, dueDate) ==
    [row EXCEPT
        !.status = status,
        !.issue_date = IF status = "approved" /\ issueDate /\ dueDate THEN "set" ELSE @,
        !.due_date = IF status = "approved" /\ issueDate /\ dueDate THEN "set" ELSE @,
        !.return_date = IF status = "returned" THEN "set" ELSE @]

\* UPDATE ... WHERE id = requestId under "Admins can update borrow requests":
\* the statement names no expected old status.
UpdateMatches(u, r) == r \in DOMAIN requests /\ has_role(u, "admin")

\* A USING policy that filters the row out gives an UPDATE of zero rows and no
\* error, so the handler reaches toast.success and fetchRequests either way.
updateRequestStatus(u, r, status, issueDate, dueDate) ==
    /\ ButtonOffered(u, r, status)
    /\ status # "approved" => (~issueDate /\ ~dueDate)
    /\ IF UpdateMatches(u, r)
       THEN /\ requests' = [requests EXCEPT
                               ![r] = ApplyUpdateData(@, status, issueDate, dueDate)]
            /\ books' = update_book_availability(books, requests[r].status, status,
                                                 requests[r].book_id)
       ELSE UNCHANGED <<requests, books>>
    /\ toast' = "success"
    /\ view' = [view EXCEPT ![u] = Snapshot(u, user_roles, requests')]
    /\ UNCHANGED <<user_roles, nextReq, usedBooks, probe>>
    /\ UNCHANGED auth_users

\* ---- admin: BooksManagement.handleSubmit / handleDelete ----
\* AdminDashboard renders the form only for a caller whose role is admin; the
\* books policies decide again at the statement.
\* bookSchema: total_count >= 1.  A new book starts with available_count = total_count.
handleSubmitInsert(u, b, total_count) ==
    /\ has_role(u, "admin")
    /\ b \in BookIds \ usedBooks
    /\ total_count \in 1..MaxTotal
    /\ IF has_role(u, "admin")
       THEN /\ books' = (b :> [total_count |-> total_count,
                              available_count |-> total_count]) @@ books
            /\ usedBooks' = usedBooks \cup {b}
            /\ toast' = "success"
       ELSE /\ UNCHANGED <<books, usedBooks>>
            /\ toast' = "error"
    /\ UNCHANGED <<user_roles, requests, nextReq, view, probe>>
    /\ UNCHANGED auth_users

\* The edit sends validatedData, which carries total_count and no available_count.
handleSubmitEdit(u, b, total_count) ==
    /\ has_role(u, "admin")
    /\ b \in usedBooks
    /\ total_count \in 1..MaxTotal
    /\ books' = IF b \in DOMAIN books /\ has_role(u, "admin")
                THEN [books EXCEPT ![b].total_count = total_count]
                ELSE books
    /\ toast' = "success"
    /\ UNCHANGED <<user_roles, requests, nextReq, usedBooks, view, probe>>
    /\ UNCHANGED auth_users

\* DELETE FROM books: borrow_requests.book_id is ON DELETE CASCADE.
handleDelete(u, b) ==
    /\ has_role(u, "admin")
    /\ b \in usedBooks
    /\ IF b \in DOMAIN books /\ has_role(u, "admin")
       THEN /\ books' = [x \in DOMAIN books \ {b} |-> books[x]]
            /\ requests' = [r \in {x \in DOMAIN requests : requests[x].book_id # b}
                               |-> requests[r]]
       ELSE UNCHANGED <<books, requests>>
    /\ toast' = "success"
    /\ UNCHANGED <<user_roles, nextReq, usedBooks, view, probe>>
    /\ UNCHANGED auth_users

\* ---- manage-admin-role (service function) ----
\* 401 without a signed-in caller, 403 unless the caller's own admin row is
\* found, 404 for an email no user has; grant inserts the target's admin row
\* (the duplicate-key error of UNIQUE(user_id, role) is reported as already
\* admin), revoke deletes it.
ManageAuthErrorSignedInOnly(caller) ==
    IF caller \notin Users THEN "unauthorized" ELSE "none"

ManageAuthError(caller) ==
    IF caller \notin Users THEN "unauthorized"
    ELSE IF ~has_role(caller, "admin") THEN "forbidden"
    ELSE "none"

InsertRoleErrorNone(roles, user_id, role) == "none"

InsertRoleError(roles, user_id, role) ==
    IF <<user_id, role>> \in roles THEN "duplicate" ELSE "none"

DeleteEveryRole(roles, user_id) == {x \in roles : x[1] # user_id}

DeleteAdminRole(roles, user_id) == roles \ {<<user_id, "admin">>}

\* Bookkeeping of the admin-role scenario: the last call and whether its
\* target held the admin row when the call arrived.
RecordCall(caller, target, action) ==
    IF probe.pc = "admin_role"
    THEN [pc |-> "admin_role", caller |-> caller, target |-> target,
          action |-> action, held |-> <<target, "admin">> \in user_roles]
    ELSE probe

manageAdminRole(caller, target, action) ==
    /\ action \in {"grant", "revoke"}
    /\ IF ManageAuthError(caller) # "none"
       THEN /\ UNCHANGED user_roles
            /\ toast' = ManageAuthError(caller)
       ELSE IF target \notin Users
       THEN /\ UNCHANGED user_roles
            /\ toast' = "not_found"
       ELSE IF action = "grant"
       THEN IF InsertRoleError(user_roles, target, "admin") = "duplicate"
            THEN /\ UNCHANGED user_roles
                 /\ toast' = "already_admin"
            ELSE /\ user_roles' = user_roles \cup {<<target, "admin">>}
                 /\ toast' = "success"
       ELSE /\ user_roles' = DeleteAdminRole(user_roles, target)
            /\ toast' = "success"
    /\ probe' = RecordCall(caller, target, action)
    /\ UNCHANGED <<books, requests, nextReq, usedBooks, view>>
    /\ UNCHANGED auth_users

\* ---- the system ----
\* A deployment in use: two admins, one student, an empty catalogue.
Init ==
    /\ user_roles = {<<"u1", "admin">>, <<"u2", "admin">>, <<"u3", "student">>}
    /\ books = <<>>
    /\ requests = <<>>
    /\ nextReq = 1
    /\ usedBooks = {}
    /\ view = [u \in Users |-> NoView]
    /\ toast = NoToast
    /\ probe = ProbeOff
    /\ auth_users = Users

Next ==
    \/ \E u \in Users, b \in BookIds : requestBorrow(u, b)
    \/ \E u \in Users : fetchRequests(u)
    \/ \E u \in Users, r \in ReqIds, s \in {"approved", "rejected", "returned"},
          i \in BOOLEAN, d \in BOOLEAN : updateRequestStatus(u, r, s, i, d)
    \/ \E u \in Users, b \in BookIds, t \in 1..MaxTotal : handleSubmitInsert(u, b, t)
    \/ \E u \in Users, b \in BookIds, t \in 1..MaxTotal : handleSubmitEdit(u, b, t)
    \/ \E u \in Users, b \in BookIds : handleDelete(u, b)

Spec == Init /\ [][Next]_vars

\* The borrow lifecycle alone, on a catalogue that stays as it is: two admins
\* (one of them also a student) and a second student.
InitLifecycle ==
    /\ user_roles = {<<"u1", "admin">>, <<"u2", "admin">>,
                     <<"u2", "student">>, <<"u3", "student">>}
    /\ \E t \in 1..MaxTotal :
          books = [b \in BookIds |-> [total_count |-> t, available_count |-> t]]
    /\ requests = <<>>
    /\ nextReq = 1
    /\ usedBooks = BookIds
    /\ view = [u \in Users |-> NoView]
    /\ toast = NoToast
    /\ probe = ProbeOff
    /\ auth_users = Users

NextLifecycle ==
    \/ \E u \in Users, b \in BookIds : requestBorrow(u, b)
    \/ \E u \in Users : fetchRequests(u)
    \/ \E u \in Users, r \in ReqIds, s \in {"approved", "rejected", "returned"},
          i \in BOOLEAN, d \in BOOLEAN : updateRequestStatus(u, r, s, i, d)

SpecLifecycle == InitLifecycle /\ [][NextLifecycle]_vars

\* The lifecycle of one request while the admin role is granted and revoked.
InitRoles ==
    /\ user_roles = {<<"u1", "admin">>, <<"u2", "admin">>, <<"u3", "student">>}
    /\ \E t \in 1..MaxTotal :
          books = [b \in BookIds |-> [total_count |-> t, available_count |-> t]]
    /\ requests = (1 :> NewRequest("u3", "b1"))
    /\ nextReq = 2
    /\ usedBooks = BookIds
    /\ view = [u \in Users |-> NoView]
    /\ toast = NoToast
    /\ probe = ProbeOff
    /\ auth_users = Users

NextRoles ==
    \/ \E u \in Users : fetchRequests(u)
    \/ \E u \in Users, r \in ReqIds, s \in {"approved", "rejected", "returned"},
          i \in BOOLEAN, d \in BOOLEAN : updateRequestStatus(u, r, s, i, d)
    \/ \E c \in Users, t \in Users, a \in {"grant", "revoke"} : manageAdminRole(c, t, a)

SpecRoles == InitRoles /\ [][NextRoles]_vars

\* ---- scenario: two admins approve the same pending request ----
\* Both dashboards have fetched the list while request 1 was pending; then each
\* admin presses Approve, in either order.  A view changes only by its owner's
\* own update here, so view[u].rows[1] = "approved" says that u has approved.
\* available_count starts anywhere the counter can stand, total_count + 1
\* included: returns of requests approved at 0 raise it past total_count.
SeededRequests(other_status) ==
    IF other_status = NULL \/ MaxRequests < 2
    THEN (1 :> NewRequest("u3", "b1"))
    ELSE (1 :> NewRequest("u3", "b1")) @@
         (2 :> ApplyUpdateData(NewRequest("u3", "b1"), other_status, FALSE, FALSE))

InitRace ==
    /\ user_roles = {<<"u1", "admin">>, <<"u2", "admin">>, <<"u3", "student">>}
    /\ \E t \in 1..MaxTotal, a \in 0..(MaxTotal + 1) :
          /\ books = [b \in BookIds |-> [total_count |-> t, available_count |-> a]]
          /\ probe = Probe("race", NULL, "u3", "b1", a)
    /\ \E other \in borrow_status \cup {NULL} : requests = SeededRequests(other)
    /\ nextReq = Cardinality(DOMAIN requests) + 1
    /\ usedBooks = BookIds
    /\ view = [u \in Users |-> IF <<u, "admin">> \in user_roles
                               THEN Snapshot(u, user_roles, requests) ELSE NoView]
    /\ toast = NoToast
    /\ auth_users = Users

RaceApprove(u) ==
    /\ probe.pc = "race"
    /\ \E i \in BOOLEAN, d \in BOOLEAN : updateRequestStatus(u, 1, "approved", i, d)

NextRace == \E u \in Users : RaceApprove(u)

SpecRace == InitRace /\ [][NextRace]_vars

HasApproved(u) == view[u].mounted /\ 1 \in DOMAIN view[u].rows /\ view[u].rows[1] = "approved"

\* ---- scenario: create, approve, mark returned ----
\* One student, one admin on duty and one request: the request can reach
\* returned only through requestBorrow, Approve, Mark as Returned, in that order.
InitRoundTrip ==
    /\ \E admin \in Users, student \in Users :
          /\ user_roles \in SUBSET (Users \X app_role)
          /\ <<admin, "admin">> \in user_roles
          /\ <<student, "student">> \in user_roles
          /\ \E t \in 1..MaxTotal : \E a \in 0..t :
                /\ books = [b \in BookIds |-> [total_count |-> t, available_count |-> a]]
                /\ probe = Probe("roundtrip", admin, student, "b1", a)
          /\ view = [u \in Users |-> IF u = admin THEN [mounted |-> TRUE, rows |-> <<>>]
                                     ELSE NoView]
    /\ requests = <<>>
    /\ nextReq = 1
    /\ usedBooks = BookIds
    /\ toast = NoToast
    /\ auth_users = Users

RoundTripCreate ==
    /\ probe.pc = "roundtrip"
    /\ nextReq = 1
    /\ requestBorrow(probe.student, probe.book)

RoundTripFetch ==
    /\ probe.pc = "roundtrip"
    /\ fetchRequests(probe.admin)

RoundTripApprove ==
    /\ probe.pc = "roundtrip"
    /\ \E i \in BOOLEAN, d \in BOOLEAN :
          updateRequestStatus(probe.admin, 1, "approved", i, d)

RoundTripReturn ==
    /\ probe.pc = "roundtrip"
    /\ updateRequestStatus(probe.admin, 1, "returned", FALSE, FALSE)

NextRoundTrip ==
    \/ RoundTripCreate
    \/ RoundTripFetch
    \/ RoundTripApprove
    \/ RoundTripReturn

SpecRoundTrip == InitRoundTrip /\ [][NextRoundTrip]_vars

\* ---- database: INSERT INTO borrow_requests as the policies admit it ----
\* The table is reachable by every signed-in client through the REST endpoint;
\* what an INSERT may carry is decided by "Students can create borrow
\* requests" alone, whose WITH CHECK reads student_id and the caller's role.
\* The trigger runs AFTER INSERT with OLD.status NULL.  The response carries
\* the database error.
insertBorrowRequest(u, student_id, book_id, status) ==
    /\ nextReq <= MaxRequests
    /\ LET err == InsertRequestError(u, student_id, book_id) IN
       IF err = "none"
       THEN /\ requests' = (nextReq :> [NewRequest(student_id, book_id)
                                           EXCEPT !.status = status]) @@ requests
            /\ nextReq' = nextReq + 1
            /\ books' = update_book_availability(books, NULL, status, book_id)
            /\ toast' = "success"
       ELSE /\ UNCHANGED <<requests, nextReq, books>>
            /\ toast' = err
    /\ UNCHANGED <<user_roles, usedBooks, view, probe>>
    /\ UNCHANGED auth_users

\* Request creation, through the catalogue's button and through the table's
\* endpoint, with the book catalogued or not (never added, or deleted since).
InitCreate ==
    /\ user_roles = {<<"u1", "admin">>, <<"u2", "admin">>,
                     <<"u2", "student">>, <<"u3", "student">>}
    /\ \E t \in 1..MaxTotal : \E a \in 0..t : \E present \in BOOLEAN :
          books = IF present
                  THEN [b \in BookIds |-> [total_count |-> t, available_count |-> a]]
                  ELSE <<>>
    /\ requests = <<>>
    /\ nextReq = 1
    /\ usedBooks = BookIds
    /\ view = [u \in Users |-> NoView]
    /\ toast = NoToast
    /\ probe = ProbeOff
    /\ auth_users = Users

NextCreate ==
    \/ \E u \in Users, b \in BookIds : requestBorrow(u, b)
    \/ \E u \in Users, sid \in Users, b \in BookIds, st \in borrow_status :
          insertBorrowRequest(u, sid, b, st)

SpecCreate == InitCreate /\ [][NextCreate]_vars

\* ---- database: UPDATE books as the policies admit it ----
\* "Admins can update books" is a USING clause on the row: it names no column,
\* and the generated books.Update type carries available_count beside
\* total_count.  BooksManagement's edit form is the caller that leaves
\* available_count out; the endpoint takes it from any admin client.
updateBooksRow(u, b, total_count, available_count) ==
    /\ b \in usedBooks
    /\ total_count \in 1..MaxTotal
    /\ available_count \in 0..MaxTotal
    /\ IF b \in DOMAIN books /\ has_role(u, "admin")
       THEN /\ books' = [books EXCEPT ![b] = [total_count |-> total_count,
                                             available_count |-> available_count]]
            /\ toast' = "success"
       ELSE /\ UNCHANGED books
            /\ toast' = "no_rows"
    /\ UNCHANGED <<user_roles, requests, nextReq, usedBooks, view, probe>>
    /\ UNCHANGED auth_users

\* The catalogued book under the borrow lifecycle and under book updates.
NextCatalogue ==
    \/ \E u \in Users, b \in BookIds : requestBorrow(u, b)
    \/ \E u \in Users : fetchRequests(u)
    \/ \E u \in Users, r \in ReqIds, s \in {"approved", "rejected", "returned"},
          i \in BOOLEAN, d \in BOOLEAN : updateRequestStatus(u, r, s, i, d)
    \/ \E u \in Users, b \in BookIds, t \in 1..MaxTotal : handleSubmitEdit(u, b, t)
    \/ \E u \in Users, b \in BookIds, t \in 1..MaxTotal, a \in 0..MaxTotal :
          updateBooksRow(u, b, t, a)

SpecCatalogue == InitRoles /\ [][NextCatalogue]_vars

\* ---- bootstrap-admin (service function) ----
\* The handler is two requests to the database with nothing held between
\* them: the count of admin rows, then the insert.  probe.counted holds the
\* callers whose count came back zero and whose insert is still to be sent.
Anonymous == "anon"
Callers == Users \cup {Anonymous}

AdminsExistNever(roles) == FALSE

AdminsExist(roles) == \E x \in Users : <<x, "admin">> \in roles

bootstrapAdminCount(caller) ==
    /\ probe.pc = "bootstrap"
    /\ caller \notin probe.counted
    /\ IF caller \notin Users
       THEN /\ toast' = "unauthorized"
            /\ UNCHANGED probe
       ELSE IF AdminsExist(user_roles)
       THEN /\ toast' = "admins_exist"
            /\ UNCHANGED probe
       ELSE /\ probe' = [probe EXCEPT !.counted = @ \cup {caller}]
            /\ UNCHANGED toast
    /\ UNCHANGED <<user_roles, books, requests, nextReq, usedBooks, view>>
    /\ UNCHANGED auth_users

\* A duplicate-key error of the insert is ignored; the response is success.
bootstrapAdminInsert(caller) ==
    /\ probe.pc = "bootstrap"
    /\ caller \in probe.counted
    /\ user_roles' = user_roles \cup {<<caller, "admin">>}
    /\ probe' = [probe EXCEPT !.counted = @ \ {caller}]
    /\ toast' = "success"
    /\ UNCHANGED <<books, requests, nextReq, usedBooks, view>>
    /\ UNCHANGED auth_users

\* First-time setup: signed-up users, some with the student role, no admin.
InitBootstrap ==
    /\ \E students \in SUBSET Users : user_roles = {<<u, "student">> : u \in students}
    /\ books = <<>>
    /\ requests = <<>>
    /\ nextReq = 1
    /\ usedBooks = {}
    /\ view = [u \in Users |-> NoView]
    /\ toast = NoToast
    /\ probe = [pc |-> "bootstrap", counted |-> {}]
    /\ auth_users = Users

NextBootstrap ==
    \/ \E c \in Callers : bootstrapAdminCount(c)
    \/ \E c \in Callers : bootstrapAdminInsert(c)

SpecBootstrap == InitBootstrap /\ [][NextBootstrap]_vars

\* ---- scenario: manage-admin-role calls on any role table ----
\* Callers signed in or not, targets known or not.
UnknownUser == "nobody"

InitAdminRole ==
    /\ user_roles \in SUBSET (Users \X app_role)
    /\ books = <<>>
    /\ requests = <<>>
    /\ nextReq = 1
    /\ usedBooks = {}
    /\ view = [u \in Users |-> NoView]
    /\ toast = NoToast
    /\ probe = [pc |-> "admin_role", caller |-> NULL, target |-> NULL,
                action |-> NULL, held |-> FALSE]
    /\ auth_users = Users

NextAdminRole ==
    \E c \in Callers, t \in Users \cup {UnknownUser}, a \in {"grant", "revoke"} :
        manageAdminRole(c, t, a)

SpecAdminRole == InitAdminRole /\ [][NextAdminRole]_vars

\* ---- delete-user (service function) ----
\* The caller's role is read with .single() on all of the caller's role rows:
\* no row or more than one row is an error of the query, and any error of the
\* query is answered like a missing admin role.
SingleRole(caller, roles, fails) ==
    LET rows == {r \in app_role : <<caller, r>> \in roles} IN
    IF fails \/ Cardinality(rows) # 1 THEN "error"
    ELSE CHOOSE r \in rows : TRUE

\* auth.admin.deleteUser: the account goes, and with it, by ON DELETE CASCADE,
\* its role rows, its profile and the borrow requests of that profile.  No
\* trigger of borrow_requests fires on DELETE.
CascadeRoles(roles, user_id) == {x \in roles : x[1] # user_id}

CascadeRequests(reqs, user_id) ==
    [r \in {x \in DOMAIN reqs : reqs[x].student_id # user_id} |-> reqs[r]]

NoEmail == "no_email"
DeleteFaults == {"none", "role_lookup", "list_users", "delete_user"}

\* on_borrow_request_status_change is AFTER INSERT OR UPDATE OF status: the
\* rows a DELETE removes reach no trigger, so books stays as it is.
AfterDeleteRowsRestoring(bks, reqs, removed) ==
    [b \in DOMAIN bks |->
        [bks[b] EXCEPT !.available_count =
            @ + Cardinality({r \in removed : reqs[r].book_id = b
                                             /\ reqs[r].status = "approved"})]]

AfterDeleteRows(bks, reqs, removed) == bks

deleteUser(caller, target, fault) ==
    /\ fault \in DeleteFaults
    /\ IF caller \notin auth_users
       THEN /\ toast' = "unauthorized"
            /\ UNCHANGED <<auth_users, user_roles, requests>>
       ELSE IF SingleRole(caller, user_roles, fault = "role_lookup") # "admin"
       THEN /\ toast' = "forbidden"
            /\ UNCHANGED <<auth_users, user_roles, requests>>
       ELSE IF target = NoEmail
       THEN /\ toast' = "bad_request"
            /\ UNCHANGED <<auth_users, user_roles, requests>>
       ELSE IF fault = "list_users"
       THEN /\ toast' = "internal"
            /\ UNCHANGED <<auth_users, user_roles, requests>>
       ELSE IF target \notin auth_users
       THEN /\ toast' = "not_found"
            /\ UNCHANGED <<auth_users, user_roles, requests>>
       ELSE IF fault = "delete_user"
       THEN /\ toast' = "internal"
            /\ UNCHANGED <<auth_users, user_roles, requests>>
       ELSE /\ auth_users' = auth_users \ {target}
            /\ user_roles' = CascadeRoles(user_roles, target)
            /\ requests' = CascadeRequests(requests, target)
            /\ toast' = "success"
    /\ books' = AfterDeleteRows(books, requests, DOMAIN requests \ DOMAIN requests')
    /\ UNCHANGED <<nextReq, usedBooks, view, probe>>

\* ---- database: DELETE FROM borrow_requests as the policies admit it ----
\* "Admins can delete borrow requests" is a USING clause: for another caller
\* the statement removes no row and raises no error.
deleteBorrowRequest(u, r) ==
    /\ r \in DOMAIN requests
    /\ IF has_role(u, "admin")
       THEN /\ requests' = [x \in DOMAIN requests \ {r} |-> requests[x]]
            /\ toast' = "success"
       ELSE /\ UNCHANGED requests
            /\ toast' = "no_rows"
    /\ books' = AfterDeleteRows(books, requests, DOMAIN requests \ DOMAIN requests')
    /\ UNCHANGED <<auth_users, user_roles, nextReq, usedBooks, view, probe>>

\* ---- scenario: deletions on a stocked library ----
\* Two books, each with MaxTotal copies; the requests on file are in any
\* status and the counters stand where the trigger left them after the
\* approvals on file (an approval past the last copy left the counter at 0).
ShelfIds == {"b1", "b2"}

ShelfRequests(statuses) ==
    [r \in ReqIds |->
        [NewRequest(IF r % 2 = 1 THEN "u3" ELSE "u2", IF r = 1 THEN "b1" ELSE "b2")
            EXCEPT !.status = statuses[r]]]

ShelfBooks(reqs) ==
    [b \in ShelfIds |->
        LET out == Cardinality({r \in DOMAIN reqs : reqs[r].book_id = b
                                                    /\ reqs[r].status = "approved"})
        IN [total_count |-> MaxTotal,
            available_count |-> IF out >= MaxTotal THEN 0 ELSE MaxTotal - out]]

InitDeletions ==
    /\ auth_users = Users
    /\ user_roles = {<<"u1", "admin">>, <<"u2", "admin">>,
                     <<"u2", "student">>, <<"u3", "student">>}
    /\ \E statuses \in [ReqIds -> borrow_status] : requests = ShelfRequests(statuses)
    /\ books = ShelfBooks(requests)
    /\ nextReq = MaxRequests + 1
    /\ usedBooks = ShelfIds
    /\ view = [u \in Users |-> NoView]
    /\ toast = NoToast
    /\ probe = ProbeOff

NextDeletions ==
    \/ \E c \in Callers, t \in Users \cup {UnknownUser, NoEmail}, f \in DeleteFaults :
          deleteUser(c, t, f)
    \/ \E u \in Users, r \in ReqIds : deleteBorrowRequest(u, r)
    \/ \E u \in Users, b \in ShelfIds : handleDelete(u, b)

SpecDeletions == InitDeletions /\ [][NextDeletions]_vars

\* ---- database: user_roles as the policies admit it to a signed-in client ----
\* SELECT of one's own rows and INSERT under "Users can insert their own
\* student role" are the only policies of the table: an UPDATE or DELETE from
\* a client matches no row.
InsertRoleCheckOwnRow(u, user_id, role) == u = user_id

InsertRoleCheck(u, user_id, role) == u = user_id /\ role = "student"

insertUserRole(u, user_id, role) ==
    /\ probe.pc = "self_role"
    /\ IF ~InsertRoleCheck(u, user_id, role)
       THEN /\ UNCHANGED user_roles
            /\ toast' = "rls"
       ELSE IF InsertRoleError(user_roles, user_id, role) = "duplicate"
       THEN /\ UNCHANGED user_roles
            /\ toast' = "duplicate"
       ELSE /\ user_roles' = user_roles \cup {<<user_id, role>>}
            /\ toast' = "success"
    /\ UNCHANGED <<auth_users, books, requests, nextReq, usedBooks, view, probe>>

changeUserRole(u, user_id, role) ==
    /\ probe.pc = "self_role"
    /\ toast' = "no_rows"
    /\ UNCHANGED <<auth_users, user_roles, books, requests, nextReq, usedBooks, view, probe>>

InitSelfRole ==
    /\ auth_users = Users
    /\ user_roles \in SUBSET (Users \X app_role)
    /\ books = <<>>
    /\ requests = <<>>
    /\ nextReq = 1
    /\ usedBooks = {}
    /\ view = [u \in Users |-> NoView]
    /\ toast = NoToast
    /\ probe = [pc |-> "self_role"]

NextSelfRole ==
    \/ \E u \in Users, x \in Users, r \in app_role : insertUserRole(u, x, r)
    \/ \E u \in Users, x \in Users, r \in app_role : changeUserRole(u, x, r)

SpecSelfRole == InitSelfRole /\ [][NextSelfRole]_vars

\* ---- database: SELECT on borrow_requests by any signed-in client ----
selectBorrowRequests(u) ==
    /\ view' = [view EXCEPT ![u] = Snapshot(u, user_roles, requests)]
    /\ UNCHANGED <<auth_users, user_roles, books, requests, nextReq, usedBooks,
                   toast, probe>>

NextRead ==
    \/ \E u \in Users : selectBorrowRequests(u)
    \/ \E u \in Users, r \in ReqIds : deleteBorrowRequest(u, r)

SpecRead == InitDeletions /\ [][NextRead]_vars

\* ======================= properties =======================
ApprovedCount(b) ==
    Cardinality({r \in DOMAIN requests :
                    requests[r].book_id = b /\ requests[r].status = "approved"})

Active(r) == requests[r].status \in {"pending", "approved"}

StatusInputs == {"approved", "rejected", "returned"}

\* C1: in every reachable state every book's available_count equals its
\* total_count minus the number of its requests whose status is approved.
InventoryMatchesApprovals ==
    \A b \in DOMAIN books :
        books[b].available_count = books[b].total_count - ApprovedCount(b)

\* C2: in every reachable state every book has 0 <= available_count <= total_count.
AvailableWithinTotal ==
    \A b \in DOMAIN books :
        /\ 0 <= books[b].available_count
        /\ books[b].available_count <= books[b].total_count

\* C3: in every reachable state a (student_id, book_id) pair has at most one
\* request whose status is pending or approved.
OneActiveRequestPerPair ==
    \A r1 \in DOMAIN requests, r2 \in DOMAIN requests :
        (/\ r1 # r2
         /\ requests[r1].student_id = requests[r2].student_id
         /\ requests[r1].book_id = requests[r2].book_id)
        => ~(Active(r1) /\ Active(r2))

\* C4: when two admins approve the same pending request concurrently, in any
\* order, the book's available_count, if it was > 0 beforehand, is one less
\* than before as soon as one approval is in, and still one less, not two,
\* when both are in.
ApprovedTwiceDecrementsOnce ==
    (/\ probe.pc = "race"
     /\ probe.before > 0
     /\ \E u \in Users : HasApproved(u))
    => books[probe.book].available_count = probe.before - 1

\* Witness of C4: both admins' approvals of request 1 are in, the count was > 0.
BothAdminsApproved ==
    /\ probe.pc = "race"
    /\ probe.before > 0
    /\ HasApproved("u1") /\ HasApproved("u2")
    /\ requests[1].status = "approved"

\* C5: when two admins approve the same pending request concurrently, the later
\* call does not report success (it fails with InvalidTransition).
SecondApproveFails ==
    (/\ probe.pc = "race"
     /\ HasApproved("u1") /\ HasApproved("u2"))
    => toast # "success"

\* C6: create request -> approve -> mark returned leaves the book's
\* available_count at its value before the sequence, whatever that value was.
RoundTripRestoresAvailable ==
    (/\ probe.pc = "roundtrip"
     /\ 1 \in DOMAIN requests
     /\ requests[1].status = "returned")
    => books[probe.book].available_count = probe.before

InventoryDelta(old_status, new_status) ==
    IF old_status = "pending" /\ new_status = "approved" THEN 0 - 1
    ELSE IF old_status = "approved" /\ new_status \in {"returned", "rejected"} THEN 1
    ELSE 0

\* C8: a status update along pending->approved, approved->returned or
\* approved->rejected either changes the status and adjusts the book's
\* available_count by the paired -1/+1, or changes neither.
StatusAndInventoryTogether ==
    [][\A u \in Users, r \in ReqIds, s \in StatusInputs, i \in BOOLEAN, d \in BOOLEAN :
          (/\ updateRequestStatus(u, r, s, i, d)
           /\ r \in DOMAIN requests
           /\ InventoryDelta(requests[r].status, s) # 0)
          => LET b == requests[r].book_id IN
             \/ /\ requests'[r].status = s
                /\ books'[b].available_count =
                      books[b].available_count + InventoryDelta(requests[r].status, s)
             \/ /\ requests' = requests
                /\ books' = books]_vars

\* C9: a status update by a caller without the admin role is reported as a
\* failure and changes neither the request nor any book.
NonAdminUpdateFails ==
    [][\A u \in Users, r \in ReqIds, s \in StatusInputs, i \in BOOLEAN, d \in BOOLEAN :
          (/\ updateRequestStatus(u, r, s, i, d)
           /\ ~has_role(u, "admin"))
          => /\ toast' # "success"
             /\ requests' = requests
             /\ books' = books]_vars

LegalEdges ==
    {<<"pending", "approved">>, <<"pending", "rejected">>,
     <<"approved", "returned">>, <<"approved", "rejected">>}

\* C10: an admin's status update whose (old, new) pair is not a legal edge is
\* reported as a failure and leaves the request's status as it was.
IllegalTransitionFails ==
    [][\A u \in Users, r \in ReqIds, s \in StatusInputs, i \in BOOLEAN, d \in BOOLEAN :
          (/\ updateRequestStatus(u, r, s, i, d)
           /\ UpdateMatches(u, r)
           /\ <<requests[r].status, s>> \notin LegalEdges)
          => /\ toast' # "success"
             /\ requests'[r].status = requests[r].status]_vars

\* C11: an approve of a pending request that does not carry both issue_date
\* and due_date is reported as a failure and leaves the request pending, and
\* after every step each approved request has both dates set.
ApproveNeedsDates ==
    [][/\ \A u \in Users, r \in ReqIds, i \in BOOLEAN, d \in BOOLEAN :
             (/\ updateRequestStatus(u, r, "approved", i, d)
              /\ UpdateMatches(u, r)
              /\ requests[r].status = "pending"
              /\ ~(i /\ d))
             => /\ toast' # "success"
                /\ requests'[r].status = "pending"
       /\ \A r \in DOMAIN requests' :
             requests'[r].status = "approved"
             => /\ requests'[r].issue_date # NULL
                /\ requests'[r].due_date # NULL]_vars

\* C12: every step that adds a borrow request adds it in status pending and
\* leaves every book's available_count as it was.
CreatedPendingOnly ==
    [][\A r \in DOMAIN requests' \ DOMAIN requests :
          /\ requests'[r].status = "pending"
          /\ books' = books]_vars

\* C13: a creation attempt whose caller is not the named student, or does not
\* hold the student role, adds no request row and is not reported as a success.
OnlyStudentCreatesOwnRequest ==
    [][/\ \A u \in Users, sid \in Users, b \in BookIds, st \in borrow_status :
             (/\ insertBorrowRequest(u, sid, b, st)
              /\ ~(u = sid /\ has_role(u, "student")))
             => (requests' = requests /\ toast' # "success")
       /\ \A u \in Users, b \in BookIds :
             (requestBorrow(u, b) /\ ~has_role(u, "student"))
             => (requests' = requests /\ toast' # "success")]_vars

\* Witness of C13: the last creation attempt was turned down by the insert
\* policy while the book exists, and no row was added.
CreationRefusedByPolicy ==
    /\ toast = "rls"
    /\ "b1" \in DOMAIN books
    /\ requests = <<>>

\* C14: a creation attempt whose book_id names no existing book adds no
\* request row and is reported as a failure.
UnknownBookCreatesNothing ==
    [][/\ \A u \in Users, sid \in Users, b \in BookIds, st \in borrow_status :
             (insertBorrowRequest(u, sid, b, st) /\ b \notin DOMAIN books)
             => (requests' = requests /\ toast' # "success")
       /\ \A u \in Users, b \in BookIds :
             (requestBorrow(u, b) /\ b \notin DOMAIN books)
             => (requests' = requests /\ toast' # "success")]_vars

\* Witness of C14: a student's creation attempt passed the policy and was
\* turned down by the foreign key to books; no row was added.
CreationRefusedByForeignKey ==
    /\ toast = "foreign_key"
    /\ books = <<>>
    /\ requests = <<>>

\* C15: the available_count of an existing book changes only in a step that
\* changes the status of a borrow request for that book.
AvailableChangesOnlyByTransition ==
    [][\A b \in DOMAIN books \cap DOMAIN books' :
          books'[b].available_count # books[b].available_count
          => \E r \in DOMAIN requests \cap DOMAIN requests' :
                /\ requests[r].book_id = b
                /\ requests'[r].status # requests[r].status]_vars

\* C16: a bootstrap-admin call by a signed-in caller that finds no admin row
\* goes on to make the caller an admin and to answer success; one that finds
\* an admin row answers 'admins already exist' and leaves user_roles as it was.
BootstrapFirstAdminOnly ==
    [][\A c \in Users :
          /\ (bootstrapAdminCount(c) /\ \E x \in Users : <<x, "admin">> \in user_roles)
             => (toast' = "admins_exist" /\ user_roles' = user_roles
                 /\ c \notin probe'.counted)
          /\ (bootstrapAdminCount(c) /\ ~\E x \in Users : <<x, "admin">> \in user_roles)
             => (c \in probe'.counted /\ user_roles' = user_roles)
          /\ bootstrapAdminInsert(c)
             => (<<c, "admin">> \in user_roles' /\ toast' = "success")]_vars

\* Witness of C16: an admin exists through bootstrap-admin and the last call,
\* made while that admin existed, was answered 'admins already exist'.
BootstrapRefused ==
    /\ probe.pc = "bootstrap"
    /\ toast = "admins_exist"
    /\ \E x \in Users : <<x, "admin">> \in user_roles

\* C17: starting from no admin row, whatever the interleaving of
\* bootstrap-admin calls, at most one caller holds the admin role.
BootstrapAtMostOneAdmin ==
    probe.pc = "bootstrap"
    => Cardinality({x \in Users : <<x, "admin">> \in user_roles}) <= 1

\* C18: a grant by an admin on an identity that already holds the admin role
\* reports 'already admin' and leaves user_roles as it was.
GrantTwiceReportsAlreadyAdmin ==
    [][\A c \in Users, t \in Users :
          (/\ manageAdminRole(c, t, "grant")
           /\ <<c, "admin">> \in user_roles
           /\ <<t, "admin">> \in user_roles)
          => (toast' = "already_admin" /\ user_roles' = user_roles)]_vars

\* Witness of C18: the last call was a grant on a holder of the admin role.
GrantedToHolder ==
    /\ probe.pc = "admin_role"
    /\ probe.action = "grant"
    /\ probe.held
    /\ toast = "already_admin"

\* C19: a revoke by an admin removes the target's admin row and nothing else,
\* so on a target without that row it answers success and leaves user_roles
\* as it was, and a second revoke changes nothing more.
RevokeWithoutRowIsNoOp ==
    [][\A c \in Users, t \in Users :
          (manageAdminRole(c, t, "revoke") /\ <<c, "admin">> \in user_roles)
          => /\ toast' = "success"
             /\ user_roles' = user_roles \ {<<t, "admin">>}
             /\ (<<t, "admin">> \notin user_roles => user_roles' = user_roles)]_vars

\* Witness of C19: the last call was a revoke on a known identity without the
\* admin row, answered with success.
RevokedNonHolder ==
    /\ probe.pc = "admin_role"
    /\ probe.action = "revoke"
    /\ probe.target \in Users
    /\ ~probe.held
    /\ toast = "success"

\* C20: a manage-admin-role call without a signed-in caller answers 401, one
\* by a signed-in caller without the admin role answers 403, and neither
\* changes user_roles.
OnlyAdminsManageRoles ==
    [][\A c \in Callers, t \in Users \cup {UnknownUser}, a \in {"grant", "revoke"} :
          /\ (manageAdminRole(c, t, a) /\ c \notin Users)
             => (toast' = "unauthorized" /\ user_roles' = user_roles)
          /\ (manageAdminRole(c, t, a) /\ c \in Users /\ <<c, "admin">> \notin user_roles)
             => (toast' = "forbidden" /\ user_roles' = user_roles)]_vars

\* Witness of C20: the last call came from a signed-in caller without the
\* admin role, named a known target, and was answered 403.
NonAdminTurnedAway ==
    /\ probe.pc = "admin_role"
    /\ probe.caller \in Users
    /\ <<probe.caller, "admin">> \notin user_roles
    /\ probe.target \in Users
    /\ toast = "forbidden"

\* C21: delete-user lets a signed-in caller past its role check exactly when
\* the caller holds an admin role row, whatever other rows the caller holds;
\* a caller without one gets 403 and no account is deleted.
DeleteUserAdmitsEveryAdmin ==
    [][\A c \in Users, t \in Users \cup {UnknownUser, NoEmail} :
          (deleteUser(c, t, "none") /\ c \in auth_users)
          => /\ (<<c, "admin">> \in user_roles) <=> (toast' # "forbidden")
             /\ (<<c, "admin">> \notin user_roles) => (auth_users' = auth_users)]_vars

\* C22: delete-user answers 401 to a caller who is not signed in, 403 to one
\* without the admin role, 404 to an email no account has and 500 to a failure
\* of a service it calls; it deletes exactly the named account on success and
\* nothing otherwise.
DeleteUserOutcomesDistinct ==
    [][\A c \in Callers, t \in Users \cup {UnknownUser}, f \in DeleteFaults :
          deleteUser(c, t, f)
          => /\ (c \notin auth_users) => (toast' = "unauthorized")
             /\ (c \in auth_users /\ <<c, "admin">> \notin user_roles)
                => (toast' = "forbidden")
             /\ (c \in auth_users /\ {r \in app_role : <<c, r>> \in user_roles} = {"admin"})
                => /\ (f = "none" /\ t \notin auth_users) => (toast' = "not_found")
                   /\ (f \in {"role_lookup", "list_users"}) => (toast' = "internal")
                   /\ (f = "delete_user" /\ t \in auth_users) => (toast' = "internal")
             /\ (toast' = "success") => (auth_users' = auth_users \ {t})
             /\ (toast' # "success") => (auth_users' = auth_users)]_vars

\* C30: a step that removes borrow requests, by an admin's delete, by the
\* cascade of a deleted account or by the cascade of a deleted book, leaves
\* every remaining book's counts as they were, whatever the rows' status.
DeletionKeepsAvailable ==
    [][(DOMAIN requests' # DOMAIN requests /\ DOMAIN requests' \subseteq DOMAIN requests)
       => \A b \in DOMAIN books' : b \in DOMAIN books /\ books'[b] = books[b]]_vars

\* Witness of C30: a remaining book has no approved request on file and fewer
\* copies available than it owns; the counters started in step with the
\* approvals, so an approved request of that book was deleted.
ApprovedRequestDeleted ==
    \E b \in DOMAIN books :
        /\ books[b].available_count < books[b].total_count
        /\ ~\E r \in DOMAIN requests :
               requests[r].book_id = b /\ requests[r].status = "approved"
        /\ usedBooks = ShelfIds

\* C23: a client's statement on user_roles never adds or removes an admin
\* row: it adds at most the caller's own student row, once.
ClientsNeverGainAdmin ==
    [][/\ \A u \in Users, x \in Users, r \in app_role :
             insertUserRole(u, x, r)
             => /\ user_roles' \in {user_roles, user_roles \cup {<<u, "student">>}}
                /\ (user_roles' # user_roles)
                   => (x = u /\ r = "student" /\ <<u, "student">> \notin user_roles)
       /\ \A u \in Users, x \in Users, r \in app_role :
             changeUserRole(u, x, r) => user_roles' = user_roles]_vars

\* Witness of C23: the last statement, an insert of an admin row or of
\* another user's row, was turned down by the policy.
RoleInsertRefused ==
    /\ probe.pc = "self_role"
    /\ toast = "rls"

\* C24: a read of borrow_requests returns to the caller exactly the rows whose
\* student_id is the caller, or every row if the caller holds the admin role.
ReadsOwnOrAdmin ==
    [][\A u \in Users :
          selectBorrowRequests(u)
          => DOMAIN view'[u].rows =
                {r \in DOMAIN requests :
                    requests[r].student_id = u \/ <<u, "admin">> \in user_roles}]_vars

\* Witness of C24: student u3 has read the table and holds a row of its own
\* while another student's request is on file and is not among its rows.
StudentSeesOnlyOwn ==
    /\ view["u3"].mounted
    /\ \E r \in DOMAIN view["u3"].rows : requests[r].student_id = "u3"
    /\ \E r \in DOMAIN requests :
          requests[r].student_id # "u3" /\ r \notin DOMAIN view["u3"].rows

\* C25: a status update along an edge other than pending->approved,
\* approved->returned and approved->rejected leaves every book as it was.
OtherEdgesKeepInventory ==
    [][\A u \in Users, r \in ReqIds, s \in StatusInputs, i \in BOOLEAN, d \in BOOLEAN :
          (/\ updateRequestStatus(u, r, s, i, d)
           /\ UpdateMatches(u, r)
           /\ InventoryDelta(requests[r].status, s) = 0)
          => books' = books]_vars

\* C26: approving a pending request of a book with available_count = 0 is
\* accepted: the request becomes approved and the count stays 0.
ApproveAtZeroAccepted ==
    [][\A u \in Users, r \in ReqIds, i \in BOOLEAN, d \in BOOLEAN :
          (/\ updateRequestStatus(u, r, "approved", i, d)
           /\ UpdateMatches(u, r)
           /\ requests[r].status = "pending"
           /\ requests[r].book_id \in DOMAIN books
           /\ books[requests[r].book_id].available_count = 0)
          => /\ requests'[r].status = "approved"
             /\ toast' = "success"
             /\ books'[requests[r].book_id].available_count = 0]_vars

\* Witness of C26: the round trip began at available_count = 0 and its request
\* stands approved with the count still 0.
ApprovedWithNoCopy ==
    /\ probe.pc = "roundtrip"
    /\ probe.before = 0
    /\ 1 \in DOMAIN requests
    /\ requests[1].status = "approved"
    /\ books[probe.book].available_count = 0

\* C27: a step from approved to returned or to rejected raises the book's
\* available_count by exactly 1, whatever total_count is, and approved ->
\* returned sets return_date.
ReturnAddsOne ==
    [][\A u \in Users, r \in ReqIds, s \in {"returned", "rejected"} :
          (/\ updateRequestStatus(u, r, s, FALSE, FALSE)
           /\ UpdateMatches(u, r)
           /\ requests[r].status = "approved"
           /\ requests[r].book_id \in DOMAIN books)
          => /\ requests'[r].status = s
             /\ books'[requests[r].book_id].available_count =
                   books[requests[r].book_id].available_count + 1
             /\ (s = "returned") => (requests'[r].return_date # NULL)]_vars

\* Witness of C27: a request stands returned with its return_date set and its
\* book shows more copies available than it owns, so a return added 1 at or
\* past total_count.
ReturnedPastTotal ==
    \E r \in DOMAIN requests :
        /\ requests[r].status = "returned"
        /\ requests[r].return_date # NULL
        /\ requests[r].book_id \in DOMAIN books
        /\ books[requests[r].book_id].available_count
              > books[requests[r].book_id].total_count

\* C28: rejecting a pending request leaves every book as it was.
RejectPendingKeepsInventory ==
    [][\A u \in Users, r \in ReqIds :
          (/\ updateRequestStatus(u, r, "rejected", FALSE, FALSE)
           /\ UpdateMatches(u, r)
           /\ requests[r].status = "pending")
          => (requests'[r].status = "rejected" /\ books' = books)]_vars

\* Witness of C28: a request stands rejected while only one admin has ever
\* opened the list; that admin's list is refreshed by each of its own updates,
\* so the Reject button was pressed on a request that was pending.
RejectedFromPending ==
    /\ probe.pc = "off"
    /\ view["u1"].mounted /\ ~view["u2"].mounted /\ ~view["u3"].mounted
    /\ \E r \in DOMAIN requests :
          /\ requests[r].status = "rejected"
          /\ requests[r].book_id \in DOMAIN books
          /\ books[requests[r].book_id].available_count
                = books[requests[r].book_id].total_count

\* C29: once a request's status is rejected or returned, no step changes it.
TerminalStatusesStay ==
    [][\A r \in DOMAIN requests \cap DOMAIN requests' :
          requests[r].status \in {"rejected", "returned"}
          => requests'[r].status = requests[r].status]_vars

====
